---- MODULE Spec2Model ----
(***************************************************************************)
(* A model of vtkPlotBag (Charts/Core/vtkPlotBag.cxx): the bag plot's      *)
(* configuration (SetInputData overloads), its cache rebuild (UpdateCache),*)
(* its painting (Paint, PaintLegend) and its labelling (GetLabels,         *)
(* GetTooltipLabel).                                                       *)
(*                                                                         *)
(* Conventions.  A nullable pointer is a sequence of length 0 (nullptr) or *)
(* 1 (the pointee).  A table is a sequence of columns; the source's        *)
(* 0-based column index c is position c + 1.  Coordinates and densities    *)
(* are small integers, which float and double represent exactly, so        *)
(* "sum < 0.5 * densitySum" is 2 * sum < densitySum and                    *)
(* "sum < 0.99 * densitySum" is 100 * sum < 99 * densitySum.               *)
(***************************************************************************)
EXTENDS Integers, Sequences, FiniteSets, TLC

\* Bounds of the generated inputs.
MaxRows == 4
MaxDensity == 2
WideRows == 7
MaxFmtLen == 3

VARIABLES
  tables,              \* the tables of the application, by id (never mutated)
  input,               \* this->Data->GetInput(): a table id or NoTable
  arr,                 \* this->Data's input arrays to process 0..2 (column names)
  UseIndexForXSeries,
  Labels,              \* explicit labels (nullable)
  AutoLabels,          \* cached auto labels (nullable)
  IndexedLabels,       \* per-row labels (nullable)
  TooltipLabelFormat,  \* sequence of characters
  Points,              \* the base class's cached points (nullable)
  MedianPoints,
  Q3Points,
  Brush,               \* [color, opacity]
  Visible,
  BagVisible,
  ids,                 \* UpdateCache's local: rows sorted by density
  medianSet,           \* UpdateCache's local hull builder medianPoints
  q3Set,               \* UpdateCache's local hull builder q3Points
  last                 \* the last call: its name, arguments and results

vars == << tables, input, arr, UseIndexForXSeries, Labels, AutoLabels,
           IndexedLabels, TooltipLabelFormat, Points, MedianPoints, Q3Points,
           Brush, Visible, BagVisible, ids, medianSet, q3Set, last >>

NoTable == "NoTable"
NoColumn == "none"

------------------------------------------------------------------------------
\* Sequence helpers.

RECURSIVE SumSeq(_)
SumSeq(s) == IF s = << >> THEN 0 ELSE Head(s) + SumSeq(Tail(s))

IsPrefix(s, t) == Len(s) <= Len(t) /\ s = SubSeq(t, 1, Len(s))

------------------------------------------------------------------------------
\* Tables: named-column lookup, row count, per-row values.

Column(name, numeric, vals) == [name |-> name, numeric |-> numeric, vals |-> vals]

\* vtkTable::GetColumnByName: the first column of that name, or nullptr.
GetColumnByName(t, name) ==
  IF t = NoTable \/ \A c \in 1..Len(tables[t]) : tables[t][c].name # name
  THEN << >>
  ELSE << tables[t][CHOOSE c \in 1..Len(tables[t]) :
                      /\ tables[t][c].name = name
                      /\ \A b \in 1..(c - 1) : tables[t][b].name # name] >>

\* vtkTable::GetColumn(c), c 0-based: nullptr when out of range.
GetColumn(t, c) ==
  IF t # NoTable /\ c + 1 \in 1..Len(tables[t]) THEN << tables[t][c + 1] >> ELSE << >>

\* vtkDataArray::SafeDownCast / vtkArrayDownCast<vtkDataArray>.
DownCastDataArray(col) == IF col # << >> /\ col[1].numeric THEN col ELSE << >>

\* vtkContextMapper2D::GetInputAbstractArrayToProcess(idx, table): the column
\* bound by name with SetInputArrayToProcess.
GetInputAbstractArrayToProcess(idx, t) ==
  IF arr[idx] = NoColumn THEN << >> ELSE GetColumnByName(t, arr[idx])

------------------------------------------------------------------------------
\* The convex hull utility (vtkPointsProjectedHull) in the Z projection.

Cross(o, a, b) == (a[1] - o[1]) * (b[2] - o[2]) - (a[2] - o[2]) * (b[1] - o[1])
Dist2(a, b) == (a[1] - b[1]) * (a[1] - b[1]) + (a[2] - b[2]) * (a[2] - b[2])

PointSet(pts) == { pts[i] : i \in 1..Len(pts) }

\* The lowest, then leftmost, point.
Pivot(S) == CHOOSE p \in S : \A q \in S : p[2] < q[2] \/ (p[2] = q[2] /\ p[1] <= q[1])

\* The next hull vertex counter-clockwise after cur.
NextCCW(S, cur) ==
  CHOOSE q \in S \ {cur} :
    \A r \in S : /\ Cross(cur, q, r) >= 0
                 /\ (Cross(cur, q, r) = 0 => Dist2(cur, r) <= Dist2(cur, q))

RECURSIVE Wrap(_, _, _, _)
Wrap(S, start, cur, acc) ==
  LET nxt == NextCCW(S, cur)
  IN  IF nxt = start THEN acc ELSE Wrap(S, start, nxt, Append(acc, nxt))

\* GetCCWHullZ: the hull's vertices in counter-clockwise order.
CCWHullZ(pts) ==
  LET S == PointSet(pts)
  IN  IF S = {} THEN << >>
      ELSE IF Cardinality(S) = 1 THEN << Pivot(S) >>
      ELSE Wrap(S, Pivot(S), Pivot(S), << Pivot(S) >>)

\* GetSizeCCWHullZ.
GetSizeCCWHullZ(pts) == Len(CCWHullZ(pts))

------------------------------------------------------------------------------
\* vtkPlotBag::UpdateCache, lines 117-211.

DensityVal(d, cid) == [Density |-> d, Id |-> cid]

\* operator< of DensityVal: a sorts before b when its density is greater.
DensityValLess(a, b) == a.Density > b.Density

\* The tuples of the density array paired with their row (0-based counter).
FetchIds(density) == [ i \in 1..Len(density) |-> DensityVal(density[i], i - 1) ]

\* std::sort(ids.begin(), ids.end()): every arrangement of the elements in
\* which no element sorts after a later one; std::sort is not stable, so
\* rows of equal density come out in any order.
RECURSIVE SortedArrangements(_)
SortedArrangements(S) ==
  IF S = {} THEN { << >> }
  ELSE UNION { { << a >> \o rest : rest \in SortedArrangements(S \ {a}) } :
               a \in { b \in S : \A c \in S : ~ DensityValLess(c, b) } }

StdSort(s) == SortedArrangements({ s[i] : i \in 1..Len(s) })

\* Lines 136-141.
DensitySum(density) == SumSeq(density)

\* Lines 143-164: the loop over the sorted rows, from position i with the
\* running sum and the two hull builders' points so far.
\* A variant of the loop that compares with <= instead of <.
RECURSIVE CollectLoopInclusive(_, _, _, _, _, _, _)
CollectLoopInclusive(sorted, points, densitySum, i, sum, med, q3) ==
  IF i > Len(sorted) THEN [median |-> med, q3 |-> q3]
  ELSE LET x == points[sorted[i].Id + 1]
           s == sum + sorted[i].Density
           med2 == IF 2 * s <= densitySum THEN Append(med, x) ELSE med
       IN  IF 100 * s <= 99 * densitySum
           THEN CollectLoopInclusive(sorted, points, densitySum, i + 1, s, med2,
                                     Append(q3, x))
           ELSE [median |-> med2, q3 |-> q3]

\* A variant of the loop with the two thresholds exchanged.
RECURSIVE CollectLoopSwapped(_, _, _, _, _, _, _)
CollectLoopSwapped(sorted, points, densitySum, i, sum, med, q3) ==
  IF i > Len(sorted) THEN [median |-> med, q3 |-> q3]
  ELSE LET x == points[sorted[i].Id + 1]
           s == sum + sorted[i].Density
           med2 == IF 100 * s < 99 * densitySum THEN Append(med, x) ELSE med
       IN  IF 2 * s < densitySum
           THEN CollectLoopSwapped(sorted, points, densitySum, i + 1, s, med2,
                                   Append(q3, x))
           ELSE [median |-> med2, q3 |-> q3]

RECURSIVE CollectLoop(_, _, _, _, _, _, _)
CollectLoop(sorted, points, densitySum, i, sum, med, q3) ==
  IF i > Len(sorted) THEN [median |-> med, q3 |-> q3]
  ELSE LET x == points[sorted[i].Id + 1]
           s == sum + sorted[i].Density
           med2 == IF 2 * s < densitySum THEN Append(med, x) ELSE med
       IN  IF 100 * s < 99 * densitySum
           THEN CollectLoop(sorted, points, densitySum, i + 1, s, med2, Append(q3, x))
           ELSE [median |-> med2, q3 |-> q3]

\* Lines 166-188 and 190-211: the stored polygon of one hull builder.
\* A variant that stores the hull without repeating its first vertex.
StorePolygonOpen(collected) ==
  IF Len(collected) > 2
  THEN CCWHullZ(collected)
  ELSE collected

StorePolygon(collected) ==
  IF Len(collected) > 2
  THEN LET hull == CCWHullZ(collected)
           size == GetSizeCCWHullZ(collected)
       IN  [ j \in 1..(size + 1) |-> IF j = size + 1 THEN hull[1] ELSE hull[j] ]
  ELSE collected

------------------------------------------------------------------------------
\* The last call.

Call(op) ==
  [ op |-> op, table |-> NoTable, cols |-> << >>, ret |-> FALSE, err |-> FALSE,
    drawn |-> << >>, labels |-> << >>, tip |-> << >>, pos |-> << 0, 0 >>, row |-> 0 ]

------------------------------------------------------------------------------
\* vtkPlotPoints::UpdateCache, the superclass's rebuild of this->Points from
\* the x and y arrays (x is the row index under UseIndexForXSeries).

BaseUpdateCache ==
  LET x == DownCastDataArray(GetInputAbstractArrayToProcess(0, input))
      y == DownCastDataArray(GetInputAbstractArrayToProcess(1, input))
  IN  IF \/ input = NoTable
         \/ y = << >>
         \/ (~ UseIndexForXSeries /\ x = << >>)
         \/ (~ UseIndexForXSeries /\ x # << >> /\ Len(x[1].vals) # Len(y[1].vals))
      THEN [ ok |-> FALSE, Points |-> Points ]
      ELSE [ ok |-> TRUE,
             Points |-> << [ i \in 1..Len(y[1].vals) |->
                             << IF UseIndexForXSeries THEN i - 1 ELSE x[1].vals[i],
                                y[1].vals[i] >> ] >> ]

\* The density array UpdateCache reads: line 108.
CacheDensity == DownCastDataArray(GetColumn(input, 2))

\* vtkPlotBag::UpdateCache.  The tables of this model keep column 2 no longer
\* than the y column, so that line 149 reads points that exist.
UpdateCache ==
  LET base == BaseUpdateCache
  IN  /\ Points' = base.Points
      /\ IF ~ base.ok
         THEN /\ last' = Call("UpdateCache")
              /\ UNCHANGED << MedianPoints, Q3Points, ids, medianSet, q3Set >>
         ELSE IF CacheDensity = << >>
         THEN /\ MedianPoints' = << >>
              /\ Q3Points' = << >>
              /\ last' = Call("UpdateCache")
              /\ UNCHANGED << ids, medianSet, q3Set >>
         ELSE \E sorted \in StdSort(FetchIds(CacheDensity[1].vals)) :
                LET density == CacheDensity[1].vals
                    sets == CollectLoop(sorted, base.Points[1], DensitySum(density),
                                        1, 0, << >>, << >>)
                IN  /\ ids' = sorted
                    /\ medianSet' = sets.median
                    /\ q3Set' = sets.q3
                    /\ MedianPoints' = StorePolygon(sets.median)
                    /\ Q3Points' = StorePolygon(sets.q3)
                    /\ last' = [ Call("UpdateCache") EXCEPT !.ret = TRUE ]
      /\ UNCHANGED << tables, input, arr, UseIndexForXSeries, Labels, AutoLabels,
                      IndexedLabels, TooltipLabelFormat, Brush, Visible, BagVisible >>

------------------------------------------------------------------------------
\* The generated table of the cache specification: MaxRows rows at most, the
\* points laid out by a pattern, every density array over 0..MaxDensity.

Layouts == { "line", "convex", "zigzag", "grid" }

LayoutX(l, i) == IF l = "grid" THEN i % 2 ELSE i
LayoutY(l, i) ==
  CASE l = "line" -> i
    [] l = "convex" -> i * i
    [] l = "zigzag" -> i % 2
    [] l = "grid" -> (i \div 2) % 2

GeneratedTable(l, density) ==
  << Column("x", TRUE, [ i \in 1..Len(density) |-> LayoutX(l, i - 1) ]),
     Column("y", TRUE, [ i \in 1..Len(density) |-> LayoutY(l, i - 1) ]),
     Column("d", TRUE, density) >>

DensityArrays == UNION { [ 1..n -> 0..MaxDensity ] : n \in 0..MaxRows }

\* One longer array of distinct, nearly equal densities: the three densest
\* rows stay under half of the total.
WideArrays == { [ i \in 1..WideRows |-> 100 + WideRows - i ] }

\* The state the constructor leaves (lines 42-55, and the base classes'
\* defaults), but for the table and the column binding.
Constructed ==
  /\ Labels = << >>
  /\ AutoLabels = << >>
  /\ IndexedLabels = << >>
  /\ TooltipLabelFormat = << >>
  /\ Points = << >>
  /\ MedianPoints = << >>
  /\ Q3Points = << >>
  /\ Brush = [ color |-> << 255, 0, 0 >>, opacity |-> 255 ]
  /\ Visible = TRUE
  /\ BagVisible = TRUE
  /\ ids = << >>
  /\ medianSet = << >>
  /\ q3Set = << >>
  /\ last = Call("New")

InitCache ==
  /\ Constructed
  /\ \E l \in Layouts, density \in DensityArrays \cup WideArrays :
       tables = [ t \in { "TG" } |-> GeneratedTable(l, density) ]
  /\ input = "TG"
  /\ arr = [ i \in 0..2 |-> << "x", "y", "d" >>[i + 1] ]
  /\ UseIndexForXSeries = FALSE

NextCache == UpdateCache

SpecCache == InitCache /\ [][NextCache]_vars

------------------------------------------------------------------------------
\* The tables of the application in the plot's specification.

FixedTables ==
  [ t \in { "TA", "TB", "TC", "TM" } |->
      CASE t = "TA" -> << Column("x", TRUE, << 0, 2, 2, 0 >>),
                          Column("y", TRUE, << 0, 0, 2, 2 >>),
                          Column("d", TRUE, << 4, 3, 2, 1 >>) >>
        [] t = "TB" -> << Column("x", TRUE, << 0, 2, 2, 0 >>),
                          Column("y", TRUE, << 0, 0, 2, 2 >>),
                          Column("w", TRUE, << 1, 2, 3, 4 >>),
                          Column("d", TRUE, << 4, 3, 2, 1 >>) >>
        [] t = "TC" -> << Column("y", TRUE, << 0, 1, 3 >>),
                          Column("d", TRUE, << 3, 2, 1 >>),
                          Column("ColName", FALSE, << "a", "b", "c" >>) >>
        [] t = "TM" -> << Column("x", TRUE, << 0, 2, 2, 0 >>),
                          Column("y", TRUE, << 0, 0, 2, 2 >>),
                          Column("d", TRUE, << 3, 2, 1 >>) >> ]

TableIds == DOMAIN tables

ColumnNames(t) == { tables[t][c].name : c \in 1..Len(tables[t]) }

\* vtkTable::GetColumnName(c), c 0-based and in range.
GetColumnName(t, c) == tables[t][c + 1].name

NumberOfTuples(col) == Len(col[1].vals)

------------------------------------------------------------------------------
\* Configuration: the SetInputData overloads, lines 400-452.

\* vtkPlotBag::SetInputData(table), lines 400-404.
SetInputData1 ==
  \E table \in TableIds \cup { NoTable } :
    /\ input' = table
    /\ last' = [ Call("SetInputData1") EXCEPT !.table = table ]
    /\ UNCHANGED << tables, arr, UseIndexForXSeries, Labels, AutoLabels, IndexedLabels,
                    TooltipLabelFormat, Points, MedianPoints, Q3Points, Brush, Visible,
                    BagVisible, ids, medianSet, q3Set >>

\* The body of SetInputData(table, xColumn, yColumn, densityColumn), lines
\* 433-443: the table, the three arrays to process, the cached auto labels.
BindColumns(table, xColumn, yColumn, densityColumn) ==
  [ input |-> table,
    arr |-> [ i \in 0..2 |-> << xColumn, yColumn, densityColumn >>[i + 1] ],
    AutoLabels |-> << >> ]

\* vtkPlotBag::SetInputData(table, yColumn, densityColumn), lines 407-422.
\* The columns are looked up and dereferenced unchecked, so the call is
\* modelled for a table that has both.
SetInputData3 ==
  \E table \in TableIds, yColumn \in { "y" }, densityColumn \in { "d" } :
    /\ { yColumn, densityColumn } \subseteq ColumnNames(table)
    /\ IF NumberOfTuples(GetColumnByName(table, densityColumn)) #
            NumberOfTuples(GetColumnByName(table, yColumn))
       THEN /\ last' = [ Call("SetInputData3") EXCEPT
                           !.table = table,
                           !.cols = << yColumn, yColumn, densityColumn >>,
                           !.err = TRUE ]
            /\ UNCHANGED << input, arr, AutoLabels, UseIndexForXSeries >>
       ELSE LET b == BindColumns(table, yColumn, yColumn, densityColumn)
            IN  /\ input' = b.input
                /\ arr' = b.arr
                /\ AutoLabels' = b.AutoLabels
                /\ UseIndexForXSeries' = TRUE
                /\ last' = [ Call("SetInputData3") EXCEPT
                               !.table = table,
                               !.cols = << yColumn, yColumn, densityColumn >> ]
    /\ UNCHANGED << tables, Labels, IndexedLabels, TooltipLabelFormat, Points,
                    MedianPoints, Q3Points, Brush, Visible, BagVisible, ids, medianSet,
                    q3Set >>

\* vtkPlotBag::SetInputData(table, xColumn, yColumn, densityColumn), lines
\* 425-444.
SetInputData4 ==
  \E table \in TableIds, xColumn \in { "x" }, yColumn \in { "y" },
     densityColumn \in { "d", "w" } :
    LET b == BindColumns(table, xColumn, yColumn, densityColumn)
    IN  /\ input' = b.input
        /\ arr' = b.arr
        /\ AutoLabels' = b.AutoLabels
        /\ last' = [ Call("SetInputData4") EXCEPT
                       !.table = table,
                       !.cols = << xColumn, yColumn, densityColumn >> ]
        /\ UNCHANGED << tables, UseIndexForXSeries, Labels, IndexedLabels,
                        TooltipLabelFormat, Points, MedianPoints, Q3Points, Brush,
                        Visible, BagVisible, ids, medianSet, q3Set >>

\* vtkPlotBag::SetInputData(table, xColumn, yColumn, densityColumn) by column
\* index, lines 447-452, for indices the table has.
SetInputDataIdx ==
  \E table \in TableIds, xColumn \in { 0 }, yColumn \in { 1 }, densityColumn \in { 2, 3 } :
    /\ densityColumn < Len(tables[table])
    /\ LET cols == << GetColumnName(table, xColumn), GetColumnName(table, yColumn),
                      GetColumnName(table, densityColumn) >>
           b == BindColumns(table, cols[1], cols[2], cols[3])
       IN  /\ input' = b.input
           /\ arr' = b.arr
           /\ AutoLabels' = b.AutoLabels
           /\ last' = [ Call("SetInputDataIdx") EXCEPT !.table = table, !.cols = cols ]
    /\ UNCHANGED << tables, UseIndexForXSeries, Labels, IndexedLabels,
                    TooltipLabelFormat, Points, MedianPoints, Q3Points, Brush,
                    Visible, BagVisible, ids, medianSet, q3Set >>

------------------------------------------------------------------------------
\* Painting, lines 218-288.

Darkened(c) == << c[1] \div 2, c[2] \div 2, c[3] \div 2 >>

\* Lines 239-246 and 252-259: a polygon for three points or more, a line for
\* exactly two, nothing otherwise.
DrawBag(bag, pts, brush) ==
  IF Len(pts) > 2
  THEN << [ bag |-> bag, shape |-> "polygon", pts |-> pts, color |-> brush.color,
            opacity |-> brush.opacity ] >>
  ELSE IF Len(pts) = 2
  THEN << [ bag |-> bag, shape |-> "line", pts |-> pts, color |-> brush.color,
            opacity |-> brush.opacity ] >>
  ELSE << >>

\* Lines 229-260: what is drawn and the brush left behind.
\* A variant that does not set the saved colour back (line 248 left out).
PaintBagsDarkenedLeft(brush, q3, median) ==
  LET outer == [ color |-> Darkened(brush.color), opacity |-> 255 ]
      inner == [ color |-> Darkened(brush.color), opacity |-> 128 ]
  IN  [ drawn |-> DrawBag("q3", q3, outer) \o DrawBag("median", median, inner),
        Brush |-> inner ]

PaintBags(brush, q3, median) ==
  LET bcolor == brush.color
      outer == [ color |-> Darkened(bcolor), opacity |-> 255 ]
      inner == [ color |-> bcolor, opacity |-> 128 ]
  IN  [ drawn |-> DrawBag("q3", q3, outer) \o DrawBag("median", median, inner),
        Brush |-> inner ]

\* vtkPlotPoints::Paint, the superclass's drawing of the points.
BasePaint == TRUE

\* vtkPlotBag::Paint.
Paint ==
  /\ IF ~ Visible \/ Points = << >> \/ input = NoTable
     THEN /\ last' = Call("Paint")
          /\ UNCHANGED Brush
     ELSE IF BagVisible
     THEN LET p == PaintBags(Brush, Q3Points, MedianPoints)
          IN  /\ Brush' = p.Brush
              /\ last' = [ Call("Paint") EXCEPT !.ret = BasePaint, !.drawn = p.drawn ]
     ELSE /\ last' = [ Call("Paint") EXCEPT !.ret = BasePaint ]
          /\ UNCHANGED Brush
  /\ UNCHANGED << tables, input, arr, UseIndexForXSeries, Labels, AutoLabels,
                  IndexedLabels, TooltipLabelFormat, Points, MedianPoints, Q3Points,
                  Visible, BagVisible, ids, medianSet, q3Set >>

\* Lines 271-285: the two rectangles and the brush left behind.
LegendSwatch(brush) ==
  LET bcolor == brush.color
      opacity == brush.opacity
  IN  [ drawn |-> << [ bag |-> "q3", shape |-> "rect", pts |-> << >>,
                       color |-> Darkened(bcolor), opacity |-> 255 ],
                     [ bag |-> "median", shape |-> "rect", pts |-> << >>,
                       color |-> bcolor, opacity |-> 128 ] >>,
        Brush |-> [ color |-> bcolor, opacity |-> opacity ] ]

\* vtkPlotBag::PaintLegend.
PaintLegend ==
  LET p == LegendSwatch(Brush)
  IN  /\ Brush' = p.Brush
      /\ last' = [ Call("PaintLegend") EXCEPT !.ret = TRUE, !.drawn = p.drawn ]
      /\ UNCHANGED << tables, input, arr, UseIndexForXSeries, Labels, AutoLabels,
                      IndexedLabels, TooltipLabelFormat, Points, MedianPoints,
                      Q3Points, Visible, BagVisible, ids, medianSet, q3Set >>

\* vtkPlot::SetVisible and vtkPlotBag::SetBagVisible.
SetVisible ==
  /\ Visible' = ~ Visible
  /\ last' = Call("SetVisible")
  /\ UNCHANGED << tables, input, arr, UseIndexForXSeries, Labels, AutoLabels,
                  IndexedLabels, TooltipLabelFormat, Points, MedianPoints, Q3Points,
                  Brush, BagVisible, ids, medianSet, q3Set >>

SetBagVisible ==
  /\ BagVisible' = ~ BagVisible
  /\ last' = Call("SetBagVisible")
  /\ UNCHANGED << tables, input, arr, UseIndexForXSeries, Labels, AutoLabels,
                  IndexedLabels, TooltipLabelFormat, Points, MedianPoints, Q3Points,
                  Brush, Visible, ids, medianSet, q3Set >>

------------------------------------------------------------------------------
\* Labels, lines 291-314.

\* The density array the labels and the tooltip read: lines 305-306, 325-326.
ConfiguredDensity == DownCastDataArray(GetInputAbstractArrayToProcess(2, input))

\* vtkPlotBag::GetLabels: the array returned and the cache left behind.
GetLabelsResult ==
  IF Labels # << >> THEN [ ret |-> Labels, AutoLabels |-> AutoLabels ]
  ELSE IF AutoLabels # << >> THEN [ ret |-> AutoLabels, AutoLabels |-> AutoLabels ]
  ELSE IF input # NoTable
  THEN LET fresh == IF ConfiguredDensity # << >>
                    THEN << << ConfiguredDensity[1].name >> >>
                    ELSE << << >> >>
       IN  [ ret |-> fresh, AutoLabels |-> fresh ]
  ELSE [ ret |-> << >>, AutoLabels |-> AutoLabels ]

GetLabels ==
  /\ AutoLabels' = GetLabelsResult.AutoLabels
  /\ last' = [ Call("GetLabels") EXCEPT !.labels = GetLabelsResult.ret ]
  /\ UNCHANGED << tables, input, arr, UseIndexForXSeries, Labels, IndexedLabels,
                  TooltipLabelFormat, Points, MedianPoints, Q3Points, Brush, Visible,
                  BagVisible, ids, medianSet, q3Set >>

\* vtkPlot::SetLabels.
SetLabels ==
  \E labels \in { << >>, << << "bag" >> >> } :
    /\ Labels' = labels
    /\ last' = Call("SetLabels")
    /\ UNCHANGED << tables, input, arr, UseIndexForXSeries, AutoLabels, IndexedLabels,
                    TooltipLabelFormat, Points, MedianPoints, Q3Points, Brush, Visible,
                    BagVisible, ids, medianSet, q3Set >>

------------------------------------------------------------------------------
\* Tooltips, lines 317-397.  A string is the sequence of its pieces: the
\* literal characters and the substituted texts.

\* vtkPlot::GetNumber and vtkVariant::ToString of a number: its decimal text.
GetNumber(v) == ToString(v)

VariantToString(col, row) ==
  IF col[1].numeric THEN ToString(col[1].vals[row + 1]) ELSE col[1].vals[row + 1]

\* vtkPlot::GetLabel(0): the first of GetLabels(), or the empty string.
GetLabel ==
  LET labels == GetLabelsResult.ret
  IN  IF labels # << >> /\ Len(labels[1]) > 0 THEN << labels[1][1] >> ELSE << >>

\* Lines 331-381: the text appended for the character c after a '%'.
\* A variant whose default case appends the character without the '%'.
EscapeTextNoPercent(c, plotPos, seriesIndex) ==
  CASE c = "x" -> << GetNumber(plotPos[1]) >>
    [] c = "y" -> << GetNumber(plotPos[2]) >>
    [] c = "z" -> IF ConfiguredDensity # << >>
                  THEN << VariantToString(ConfiguredDensity, seriesIndex) >>
                  ELSE << "?" >>
    [] c = "i" -> IF IndexedLabels # << >> /\ seriesIndex >= 0
                     /\ seriesIndex < Len(IndexedLabels[1])
                  THEN << IndexedLabels[1][seriesIndex + 1] >>
                  ELSE << >>
    [] c = "l" -> GetLabel
    [] c = "c" -> << ToString(seriesIndex) >>
    [] c = "C" -> IF GetColumnByName(input, "ColName") # << >>
                  THEN << VariantToString(GetColumnByName(input, "ColName"), seriesIndex) >>
                  ELSE << "?" >>
    [] OTHER -> << c >>

EscapeText(c, plotPos, seriesIndex) ==
  CASE c = "x" -> << GetNumber(plotPos[1]) >>
    [] c = "y" -> << GetNumber(plotPos[2]) >>
    [] c = "z" -> IF ConfiguredDensity # << >>
                  THEN << VariantToString(ConfiguredDensity, seriesIndex) >>
                  ELSE << "?" >>
    [] c = "i" -> IF IndexedLabels # << >> /\ seriesIndex >= 0
                     /\ seriesIndex < Len(IndexedLabels[1])
                  THEN << IndexedLabels[1][seriesIndex + 1] >>
                  ELSE << >>
    [] c = "l" -> GetLabel
    [] c = "c" -> << ToString(seriesIndex) >>
    [] c = "C" -> IF GetColumnByName(input, "ColName") # << >>
                  THEN << VariantToString(GetColumnByName(input, "ColName"), seriesIndex) >>
                  ELSE << "?" >>
    [] OTHER -> << "%", c >>

\* Line 46.
TooltipDefaultLabelFormat ==
  << "%", "C", ",", " ", "%", "l", " ", "(", "%", "x", ",", " ", "%", "y", ")", ":",
     " ", "%", "z" >>

\* Lines 321-322.
EffectiveFormat ==
  IF TooltipLabelFormat = << >> THEN TooltipDefaultLabelFormat ELSE TooltipLabelFormat

\* Lines 327-395: the scan from position i, with the escapeNext flag, the
\* label built so far and whether GetLabel has been called.
RECURSIVE ScanFormat(_, _, _, _, _, _, _)
ScanFormat(format, plotPos, seriesIndex, i, escapeNext, tooltipLabel, labelled) ==
  IF i > Len(format) THEN [ tip |-> tooltipLabel, labelled |-> labelled ]
  ELSE IF escapeNext
  THEN ScanFormat(format, plotPos, seriesIndex, i + 1, FALSE,
                  tooltipLabel \o EscapeText(format[i], plotPos, seriesIndex),
                  labelled \/ format[i] = "l")
  ELSE IF format[i] = "%"
  THEN ScanFormat(format, plotPos, seriesIndex, i + 1, TRUE, tooltipLabel, labelled)
  ELSE ScanFormat(format, plotPos, seriesIndex, i + 1, FALSE,
                  Append(tooltipLabel, format[i]), labelled)

\* The rows every column of the bound table has.
CommonRows ==
  { r \in 0..MaxRows : \A c \in 1..Len(tables[input]) : r < Len(tables[input][c].vals) }

TooltipPositions == { << 1, 2 >> }

\* vtkPlotBag::GetTooltipLabel, for a bound table (line 364 dereferences it)
\* and a row its columns have.
GetTooltipLabel ==
  /\ input # NoTable
  /\ \E plotPos \in TooltipPositions, seriesIndex \in CommonRows :
       LET r == ScanFormat(EffectiveFormat, plotPos, seriesIndex, 1, FALSE, << >>, FALSE)
       IN  /\ AutoLabels' = IF r.labelled THEN GetLabelsResult.AutoLabels ELSE AutoLabels
           /\ last' = [ Call("GetTooltipLabel") EXCEPT
                          !.tip = r.tip, !.pos = plotPos, !.row = seriesIndex ]
  /\ UNCHANGED << tables, input, arr, UseIndexForXSeries, Labels, IndexedLabels,
                  TooltipLabelFormat, Points, MedianPoints, Q3Points, Brush, Visible,
                  BagVisible, ids, medianSet, q3Set >>

\* The formats of the tooltip specification: every string of MaxFmtLen
\* characters at most over the escapes, '%', a separator and a character that
\* is no escape; and the format of the documented example.
FormatChars == { "%", "x", "y", "z", "i", "l", "c", "C", "q", "," }

ExampleFormat == << "%", "x", ",", "%", "y", ",", "%", "z" >>

Formats == UNION { [ 1..n -> FormatChars ] : n \in 0..MaxFmtLen } \cup { ExampleFormat }

InitTooltip ==
  /\ AutoLabels = << >>
  /\ Points = << >>
  /\ MedianPoints = << >>
  /\ Q3Points = << >>
  /\ Brush = [ color |-> << 255, 0, 0 >>, opacity |-> 255 ]
  /\ Visible = TRUE
  /\ BagVisible = TRUE
  /\ ids = << >>
  /\ medianSet = << >>
  /\ q3Set = << >>
  /\ last = Call("New")
  /\ tables = FixedTables
  /\ UseIndexForXSeries = FALSE
  /\ TooltipLabelFormat \in Formats
  /\ input \in { "TA", "TC" }
  /\ \E densityColumn \in { "d", "w" } :
       arr = [ i \in 0..2 |-> << "x", "y", densityColumn >>[i + 1] ]
  /\ \E labelled \in BOOLEAN :
       /\ Labels = IF labelled THEN << << "bag" >> >> ELSE << >>
       /\ IndexedLabels = IF labelled THEN << << "r0", "r1", "r2", "r3" >> >> ELSE << >>

NextTooltip == GetTooltipLabel

SpecTooltip == InitTooltip /\ [][NextTooltip]_vars

------------------------------------------------------------------------------
\* The plot's specification: any sequence of calls on a constructed plot.

Init ==
  /\ Constructed
  /\ tables = FixedTables
  /\ input = NoTable
  /\ arr = [ i \in 0..2 |-> NoColumn ]
  /\ UseIndexForXSeries = FALSE

Next ==
  \/ SetInputData1
  \/ SetInputData3
  \/ SetInputData4
  \/ SetInputDataIdx
  \/ UpdateCache
  \/ Paint
  \/ PaintLegend
  \/ SetVisible
  \/ SetBagVisible
  \/ GetLabels
  \/ SetLabels

Spec == Init /\ [][Next]_vars

------------------------------------------------------------------------------
\* Properties of the cache rebuild.

Rebuilt == last.op = "UpdateCache" /\ last.ret

\* The cumulative density up to and including position k of the sorted rows.
RECURSIVE Cumulative(_)
Cumulative(k) == IF k = 0 THEN 0 ELSE Cumulative(k - 1) + ids[k].Density

\* The points of the sorted rows at the positions of K, in ascending order.
RECURSIVE PointsAt(_, _)
PointsAt(K, k) ==
  IF k > Len(ids) THEN << >>
  ELSE (IF k \in K THEN << Points[1][ids[k].Id + 1] >> ELSE << >>) \o PointsAt(K, k + 1)

UnderMedian == { k \in 1..Len(ids) : 2 * Cumulative(k) < DensitySum(CacheDensity[1].vals) }
UnderQ3 ==
  { k \in 1..Len(ids) : 100 * Cumulative(k) < 99 * DensitySum(CacheDensity[1].vals) }

DownwardClosed(K) == \A k \in K : \A j \in 1..k : j \in K

NonNegative(density) == \A i \in 1..Len(density) : density[i] >= 0

\* C1: after a rebuild over a non-negative density array, with the rows in
\* descending order of density, the median set holds exactly the rows whose
\* cumulative density is under half of the total and the q3 set exactly those
\* under 99% of it, in that order; the row that reaches a threshold is left
\* out and no row after it is taken.
C1_ThresholdSets ==
  (Rebuilt /\ NonNegative(CacheDensity[1].vals)) =>
    /\ \A k \in 1..(Len(ids) - 1) : ids[k].Density >= ids[k + 1].Density
    /\ medianSet = PointsAt(UnderMedian, 1)
    /\ q3Set = PointsAt(UnderQ3, 1)
    /\ DownwardClosed(UnderMedian)
    /\ DownwardClosed(UnderQ3)
    /\ (DensitySum(CacheDensity[1].vals) = 0 => (medianSet = << >> /\ q3Set = << >>))
    /\ (Len(ids) = 1 => (medianSet = << >> /\ q3Set = << >>))

C1_Witness ==
  /\ Rebuilt
  /\ medianSet # << >>
  /\ Len(medianSet) < Len(q3Set)
  /\ Len(q3Set) < Len(ids)
  /\ 2 * Cumulative(Len(medianSet) + 1) = DensitySum(CacheDensity[1].vals)

\* The polygon stored for the points collected into one set.
PolygonOf(collected, stored) ==
  /\ (Len(collected) = 0 => stored = << >>)
  /\ (Len(collected) \in { 1, 2 } => stored = collected)
  /\ (Len(collected) >= 3 =>
        /\ Len(stored) = GetSizeCCWHullZ(collected) + 1
        /\ stored[Len(stored)] = stored[1])

\* C2: after a successful rebuild each stored polygon is empty for no
\* collected point, the collected points themselves for one or two, and for
\* three or more the hull's vertices plus one, the last equal to the first.
C2_StoredPolygons ==
  Rebuilt => (PolygonOf(medianSet, MedianPoints) /\ PolygonOf(q3Set, Q3Points))

C2_Witness ==
  /\ Rebuilt
  /\ Len(medianSet) >= 3
  /\ Len(q3Set) >= 3
  /\ Len(MedianPoints) >= 4
  /\ Len(Q3Points) > Len(MedianPoints)

\* C3: the points collected into the median set are a prefix of the points
\* collected into the q3 set.
C3_MedianPrefixOfQ3 == Rebuilt => IsPrefix(medianSet, q3Set)

C3_Witness == Rebuilt /\ medianSet # << >> /\ Len(medianSet) < Len(q3Set)

------------------------------------------------------------------------------
\* Properties of the tooltip.

\* The format read as a sequence of tokens: a '%' with the character after
\* it is one token, every other character a literal.
RECURSIVE TokenText(_, _, _, _)
TokenText(format, plotPos, seriesIndex, i) ==
  IF i > Len(format) THEN << >>
  ELSE IF format[i] = "%" /\ i < Len(format)
  THEN LET c == format[i + 1]
           text == IF c \in { "x", "y", "z", "i", "l", "c", "C" }
                   THEN EscapeText(c, plotPos, seriesIndex)
                   ELSE << "%", c >>
       IN  text \o TokenText(format, plotPos, seriesIndex, i + 2)
  ELSE << format[i] >> \o TokenText(format, plotPos, seriesIndex, i + 1)

\* The same, but for a final '%' that no character follows, which is dropped.
RECURSIVE TokenTextDroppingLast(_, _, _, _)
TokenTextDroppingLast(format, plotPos, seriesIndex, i) ==
  IF i > Len(format) THEN << >>
  ELSE IF format[i] = "%" /\ i < Len(format)
  THEN LET c == format[i + 1]
           text == IF c \in { "x", "y", "z", "i", "l", "c", "C" }
                   THEN EscapeText(c, plotPos, seriesIndex)
                   ELSE << "%", c >>
       IN  text \o TokenTextDroppingLast(format, plotPos, seriesIndex, i + 2)
  ELSE IF format[i] = "%"
  THEN << >>
  ELSE << format[i] >> \o TokenTextDroppingLast(format, plotPos, seriesIndex, i + 1)

ExampleHolds ==
  (EffectiveFormat = ExampleFormat /\ ConfiguredDensity # << >>) =>
    last.tip = << ToString(last.pos[1]), ",", ToString(last.pos[2]), ",",
                  ToString(ConfiguredDensity[1].vals[last.row + 1]) >>

\* C7 as stated: the tooltip is the in-order concatenation of the literal
\* characters, the substitutions of the recognized escapes and "%c" for an
\* unrecognized c, no character of the format being lost.
C7_Original ==
  last.op = "GetTooltipLabel" =>
    /\ last.tip = TokenText(EffectiveFormat, last.pos, last.row, 1)
    /\ ExampleHolds

\* C7, amended: the same, except that a '%' that is the last character of the
\* format is dropped.
C7_TooltipTokens ==
  last.op = "GetTooltipLabel" =>
    /\ last.tip = TokenTextDroppingLast(EffectiveFormat, last.pos, last.row, 1)
    /\ ExampleHolds

C7_Witness ==
  /\ last.op = "GetTooltipLabel"
  /\ TooltipLabelFormat = ExampleFormat
  /\ input = "TA"
  /\ last.row = 1
  /\ last.tip = << "1", ",", "2", ",", "3" >>

------------------------------------------------------------------------------
\* Properties of the configuration.

NamingOverloads == { "SetInputData3", "SetInputData4", "SetInputDataIdx" }

\* The y and density columns a call names exist in its table with different
\* row counts.
Mismatched(call) ==
  /\ call.op \in NamingOverloads
  /\ GetColumnByName(call.table, call.cols[2]) # << >>
  /\ GetColumnByName(call.table, call.cols[3]) # << >>
  /\ NumberOfTuples(GetColumnByName(call.table, call.cols[2])) #
       NumberOfTuples(GetColumnByName(call.table, call.cols[3]))

\* C4: a configuration call of any overload that names columns, with y and
\* density columns of different row counts, logs an error and leaves the
\* table, the array bindings, UseIndexForXSeries and the cached AutoLabels
\* as they were.
C4_MismatchRejected ==
  [][ Mismatched(last') =>
        /\ last'.err
        /\ UNCHANGED << input, arr, UseIndexForXSeries, AutoLabels >> ]_vars

\* C5: UpdateCache returns false without a table, without cached points or
\* without a numeric density column at the configured binding, and when it
\* returns true the densities it thresholded are the configured column's.
C5_ConfiguredDensityUsed ==
  last.op = "UpdateCache" =>
    /\ (input = NoTable \/ Points = << >> \/ ConfiguredDensity = << >>) => ~ last.ret
    /\ last.ret => CacheDensity = ConfiguredDensity

\* The polygons a rebuild from the current binding, thresholding the
\* configured density column, stores for one bag.
CurrentPolygons(bag) ==
  IF ~ BaseUpdateCache.ok \/ ConfiguredDensity = << >>
  THEN { }
  ELSE { StorePolygon(
           CollectLoop(sorted, BaseUpdateCache.Points[1],
                       DensitySum(ConfiguredDensity[1].vals), 1, 0, << >>, << >>)[bag]) :
         sorted \in StdSort(FetchIds(ConfiguredDensity[1].vals)) }

\* C6: every bag Paint draws is the polygon of the table and columns bound
\* when it is drawn.
C6_NoStalePolygon ==
  last.op = "Paint" =>
    \A k \in 1..Len(last.drawn) : last.drawn[k].pts \in CurrentPolygons(last.drawn[k].bag)

\* No label: no array, or an array without a value.
NoLabel(labels) == labels = << >> \/ labels = << << >> >>

\* C8: GetLabels returns the explicit labels if set, otherwise the name of
\* the density column bound now, otherwise none.
C8_LabelOfBoundDensity ==
  last.op = "GetLabels" =>
    IF Labels # << >> THEN last.labels = Labels
    ELSE IF input # NoTable /\ ConfiguredDensity # << >>
    THEN last.labels = << << ConfiguredDensity[1].name >> >>
    ELSE NoLabel(last.labels)

\* C9: after a configuration call that succeeded, X is index-based exactly
\* when the call was the overload without an x column.
C9_IndexPerOverload ==
  (last.op \in NamingOverloads /\ ~ last.err) =>
    (UseIndexForXSeries <=> last.op = "SetInputData3")

\* C10: Paint and PaintLegend leave the brush's colour as it was, PaintLegend
\* its opacity too, and a Paint that returns early the whole brush.
C10_BrushColourKept ==
  [][ /\ last'.op \in { "Paint", "PaintLegend" } => Brush'.color = Brush.color
      /\ last'.op = "PaintLegend" => Brush'.opacity = Brush.opacity
      /\ (last'.op = "Paint" /\ (~ Visible \/ Points = << >> \/ input = NoTable)) =>
           (Brush' = Brush /\ ~ last'.ret) ]_vars

C10_Witness ==
  /\ last.op = "Paint"
  /\ last.ret
  /\ Len(last.drawn) >= 1
  /\ last.drawn[1].color = << 127, 0, 0 >>
  /\ last.drawn[1].opacity = 255
  /\ Brush = [ color |-> << 255, 0, 0 >>, opacity |-> 128 ]

====
